---- MODULE Spec2Model ----
(***************************************************************************)
(* A model of the investment tracker's portfolio engine: the position      *)
(* merge engine (App.tsx handleAddHoldings, fed by AddAssetForm.tsx), the  *)
(* quote adapters and the price synchronizer (marketDataService.ts), the  *)
(* React state of App.tsx that the asynchronous refreshes write to, the    *)
(* portfolio summary (App.tsx), the profit-sharing schedule                *)
(* (ProfitSharing.tsx), and persistence: local storage, the cloud document *)
(* and the sign-in listener (App.tsx, storageService.ts).                  *)
(*                                                                         *)
(* Numbers.  Prices and quantities are integers (a fixed number of decimal *)
(* places, scaled); a weighted-average buyPrice is an exact fraction       *)
(* <<n, d>> in lowest terms with d > 0.  A JavaScript number that may be   *)
(* missing is a sequence: <<v>> is the number v, <<>> is NaN (in a value   *)
(* an adapter computes) or undefined (in an optional field of a Holding).  *)
(* Both are falsy in JavaScript, as is <<0>>.                              *)
(***************************************************************************)
EXTENDS Integers, Sequences, FiniteSets, TLC

VARIABLES
    holdings,       \* App.tsx useState: the in-memory holding set
    editingId,      \* App.tsx useState: the holding being edited, 0 for null
    isRefreshing,   \* App.tsx useState
    mounted,        \* whether the initial-load effect has run
    localStore,     \* localStorage[STORAGE_KEY], as the list it holds
    tasks,          \* the refreshMarketPrices calls started so far, in order
    jsonpgz,        \* window.jsonpgz: the chain of installed callbacks, newest first
    scripts,        \* the <script> elements appended and not yet loaded or failed
    nextId,         \* how many ids uuidv4() has handed out
    user,           \* App.tsx useState: the uid of the signed-in user, "" for null
    remoteStore,    \* the Firestore document portfolios/<uid>: <<>> when it does
                    \* not exist, <<list>> when it holds the list
    authFlow,       \* the onAuthStateChanged callback that is awaiting Firestore
    last            \* the last operation applied: its inputs and its result

vars == <<holdings, editingId, isRefreshing, mounted, localStore, tasks, jsonpgz,
          scripts, nextId, user, remoteStore, authFlow, last>>

\* the variables of the session, which only the auth listener changes
session == <<user, authFlow>>

----------------------------------------------------------------------------
(* Bounds of the model *)

MaxIds == 2         \* uuidv4() is called at most this many times in a behaviour
MaxBatch == 2       \* lines in one batch import
MaxTasks == 2       \* refreshMarketPrices is called at most this many times
MaxMerged == 3      \* entries handed to the merge engine when it is run on its own

----------------------------------------------------------------------------
(* types.ts *)

FUND == "FUND"
STOCK == "STOCK"
AssetType == {STOCK, FUND}

NaN == <<>>             \* also: an optional number that is absent
Undefined == "<undefined>"   \* an optional string that is absent

Num(v) == <<v>>
IsNaN(x) == x = NaN
\* JavaScript truthiness of a number-or-missing and of a string-or-missing
TruthyNum(x) == x # NaN /\ x[1] # 0
TruthyStr(s) == s # "" /\ s # Undefined

----------------------------------------------------------------------------
(* Exact arithmetic on fractions <<n, d>>, d > 0, in lowest terms *)

Abs(x) == IF x < 0 THEN -x ELSE x

RECURSIVE Gcd(_, _)
Gcd(a, b) == IF b = 0 THEN a ELSE Gcd(b, a % b)

Rat(n, d) ==
    LET g == Gcd(Abs(n), d)
    IN  <<n \div g, d \div g>>

RInt(k) == <<k, 1>>
RAdd(a, b) == Rat(a[1] * b[2] + b[1] * a[2], a[2] * b[2])
RMulInt(a, k) == Rat(a[1] * k, a[2])
\* a / k for k > 0
RDivInt(a, k) == Rat(a[1], a[2] * k)
RNonNeg(a) == a[1] >= 0
RNeg(a) == <<-a[1], a[2]>>
RAbs(a) == <<Abs(a[1]), a[2]>>
RSub(a, b) == RAdd(a, RNeg(b))
RMul(a, b) == Rat(a[1] * b[1], a[2] * b[2])
\* a / b for b # 0
RDiv(a, b) == IF b[1] > 0 THEN Rat(a[1] * b[2], a[2] * b[1])
              ELSE Rat(-(a[1] * b[2]), a[2] * (-b[1]))
RLess(a, b) == a[1] * b[2] < b[1] * a[2]
RLeq(a, b) == a[1] * b[2] <= b[1] * a[2]

----------------------------------------------------------------------------
(* AddAssetForm.tsx: the holdings a submission hands to onAdd / onUpdate *)

\* parseFloat on the texts the model enters; anything else is NaN
NumericText == ("0" :> 0) @@ ("1" :> 1) @@ ("2" :> 2) @@ ("3" :> 3) @@ ("-1" :> -1)
                @@ ("10" :> 10) @@ ("12" :> 12) @@ ("50" :> 50) @@ ("100" :> 100)
                @@ ("195" :> 195) @@ ("200" :> 200) @@ ("206" :> 206)
                @@ ("208" :> 208) @@ ("210" :> 210) @@ ("216" :> 216)
ParseFloat(s) == IF s \in DOMAIN NumericText THEN Num(NumericText[s]) ELSE NaN

\* the n-th id uuidv4() returns; ids are opaque and never repeat
IdOf(n) == n

\* the object literal of handleManualSubmit's add branch and of handleBatchSubmit
NewHolding(id, type, name, code, buyDate, price, qty) ==
    [id |-> id, type |-> type, name |-> name, code |-> code, buyDate |-> buyDate,
     buyPrice |-> RInt(price), quantity |-> qty, currentPrice |-> price,
     yesterdayPrice |-> NaN, priceDate |-> Undefined]

Today == "today"

\* a line without a code is accepted like any other
BatchRow_KeepsEmptyCode(parts, id) ==
    IF Len(parts) >= 4
    THEN LET name == parts[1]
             code == parts[2]
             price == ParseFloat(parts[3])
             qty == ParseFloat(parts[4])
         IN  IF ~IsNaN(price) /\ ~IsNaN(qty)
             THEN <<NewHolding(id, FUND, IF name # "" THEN name ELSE code, code,
                               Today, price[1], qty[1])>>
             ELSE <<>>
    ELSE <<>>

\* one line of the batch text, already split at the commas and trimmed:
\* the rows handleBatchSubmit pushes for it (none when the line is rejected)
BatchRow(parts, id) ==
    IF Len(parts) >= 4
    THEN LET name == parts[1]
             code == parts[2]
             price == ParseFloat(parts[3])
             qty == ParseFloat(parts[4])
         IN  IF code # "" /\ ~IsNaN(price) /\ ~IsNaN(qty)
             THEN <<NewHolding(id, FUND, IF name # "" THEN name ELSE code, code,
                               Today, price[1], qty[1])>>
             ELSE <<>>
    ELSE <<>>

\* handleBatchSubmit's forEach: uuidv4() is drawn only for an accepted line
RECURSIVE BatchRows(_, _)
BatchRows(lines, n) ==
    IF lines = <<>> THEN <<>>
    ELSE LET row == BatchRow(Head(lines), IdOf(n + 1))
         IN  row \o BatchRows(Tail(lines), n + Len(row))

----------------------------------------------------------------------------
(* App.tsx handleAddHoldings: the position merge engine *)

\* updatedList.findIndex(h => h.code === incoming.code && h.type === incoming.type);
\* 0 stands for the -1 of "not found" (sequences are 1-based)
FindIndex(list, incoming) ==
    LET hits == {i \in 1..Len(list) :
                    list[i].code = incoming.code /\ list[i].type = incoming.type}
    IN  IF hits = {} THEN 0 ELSE CHOOSE i \in hits : \A j \in hits : i <= j

MergeIncoming_Unweighted(existing, incoming) ==
    LET newTotalQty == existing.quantity + incoming.quantity
        newAvgPrice == IF newTotalQty > 0
                       THEN RDivInt(RAdd(existing.buyPrice, incoming.buyPrice), 2)
                       ELSE RInt(0)
    IN  [existing EXCEPT !.quantity = newTotalQty, !.buyPrice = newAvgPrice]

\* the merged holding also takes the incoming entry's price and purchase date
MergeIncoming_TakesIncomingPrice(existing, incoming) ==
    LET totalOldCost == RMulInt(existing.buyPrice, existing.quantity)
        totalNewCost == RMulInt(incoming.buyPrice, incoming.quantity)
        newTotalQty == existing.quantity + incoming.quantity
        newAvgPrice == IF newTotalQty > 0
                       THEN RDivInt(RAdd(totalOldCost, totalNewCost), newTotalQty)
                       ELSE RInt(0)
    IN  [existing EXCEPT !.quantity = newTotalQty, !.buyPrice = newAvgPrice,
                         !.currentPrice = incoming.currentPrice,
                         !.buyDate = incoming.buyDate]

\* the merged holding is the incoming entry with the new quantity and cost
MergeIncoming_TakesIncomingId(existing, incoming) ==
    LET totalOldCost == RMulInt(existing.buyPrice, existing.quantity)
        totalNewCost == RMulInt(incoming.buyPrice, incoming.quantity)
        newTotalQty == existing.quantity + incoming.quantity
        newAvgPrice == IF newTotalQty > 0
                       THEN RDivInt(RAdd(totalOldCost, totalNewCost), newTotalQty)
                       ELSE RInt(0)
    IN  [existing EXCEPT !.quantity = newTotalQty, !.buyPrice = newAvgPrice,
                         !.id = incoming.id]

\* the MERGE LOGIC branch: weighted average cost
MergeIncoming(existing, incoming) ==
    LET totalOldCost == RMulInt(existing.buyPrice, existing.quantity)
        totalNewCost == RMulInt(incoming.buyPrice, incoming.quantity)
        newTotalQty == existing.quantity + incoming.quantity
        newAvgPrice == IF newTotalQty > 0
                       THEN RDivInt(RAdd(totalOldCost, totalNewCost), newTotalQty)
                       ELSE RInt(0)
    IN  [existing EXCEPT !.quantity = newTotalQty, !.buyPrice = newAvgPrice]

\* a new entry is put in front of the list
AddOne_InsertsAtFront(acc, incoming) ==
    LET existingIndex == FindIndex(acc.list, incoming)
    IN  IF existingIndex # 0
        THEN [list |-> [acc.list EXCEPT ![existingIndex] = MergeIncoming(@, incoming)],
              affectedIds |-> Append(acc.affectedIds, acc.list[existingIndex].id)]
        ELSE [list |-> <<incoming>> \o acc.list,
              affectedIds |-> Append(acc.affectedIds, incoming.id)]

\* one iteration of newHoldings.forEach over the running updatedList / affectedIds
AddOne(acc, incoming) ==
    LET existingIndex == FindIndex(acc.list, incoming)
    IN  IF existingIndex # 0
        THEN [list |-> [acc.list EXCEPT ![existingIndex] = MergeIncoming(@, incoming)],
              affectedIds |-> Append(acc.affectedIds, acc.list[existingIndex].id)]
        ELSE [list |-> Append(acc.list, incoming),
              affectedIds |-> Append(acc.affectedIds, incoming.id)]

RECURSIVE AddAll(_, _)
AddAll(acc, newHoldings) ==
    IF newHoldings = <<>> THEN acc
    ELSE AddAll(AddOne(acc, Head(newHoldings)), Tail(newHoldings))

\* each row matched against the list as it was before the call
MergeEngine_AgainstPreBatch(list, newHoldings) ==
    LET RECURSIVE go(_, _)
        go(acc, k) ==
            IF k > Len(newHoldings) THEN acc
            ELSE IF FindIndex(list, newHoldings[k]) # 0
                 THEN go(AddOne(acc, newHoldings[k]), k + 1)
                 ELSE go([list |-> Append(acc.list, newHoldings[k]),
                          affectedIds |-> Append(acc.affectedIds, newHoldings[k].id)],
                         k + 1)
    IN  go([list |-> list, affectedIds |-> <<>>], 1)

\* updatedList and affectedIds as they stand after the forEach (lines 108-140)
MergeEngine(list, newHoldings) ==
    AddAll([list |-> list, affectedIds |-> <<>>], newHoldings)

----------------------------------------------------------------------------
(* marketDataService.ts: the quote adapters *)

\* what an adapter resolves to: Null, or <<d>> for a Partial<Holding> d
Null == <<>>
Some(d) == <<d>>

\* the estimate is used whenever it parses
FundQuote_EstimateWheneverParsed(data) ==
    LET est == ParseFloat(data.gsz)
        nav == ParseFloat(data.dwjz)
        isEstimateValid == ~IsNaN(est)
        currentPrice == IF isEstimateValid THEN est ELSE nav
        yesterdayPrice == nav
        priceDate == IF isEstimateValid THEN data.gztime ELSE data.jzrq
    IN  [name |-> data.name,
         currentPrice |-> IF IsNaN(currentPrice) THEN Num(0) ELSE currentPrice,
         yesterdayPrice |-> IF IsNaN(yesterdayPrice) THEN Num(0) ELSE yesterdayPrice,
         priceDate |-> priceDate]

\* the body of the jsonpgz callback for a record with data.fundcode === code
\* (lines 41-55): the Partial<Holding> it resolves the promise with
FundQuote(data) ==
    LET est == ParseFloat(data.gsz)
        nav == ParseFloat(data.dwjz)
        isEstimateValid == ~IsNaN(est) /\ est[1] > 0
        currentPrice == IF isEstimateValid THEN est ELSE nav
        yesterdayPrice == nav
        priceDate == IF isEstimateValid THEN data.gztime ELSE data.jzrq
    IN  [name |-> data.name,
         currentPrice |-> IF IsNaN(currentPrice) THEN Num(0) ELSE currentPrice,
         yesterdayPrice |-> IF IsNaN(yesterdayPrice) THEN Num(0) ELSE yesterdayPrice,
         priceDate |-> priceDate]

\* field 3 is the current price whenever it parses
StockQuote_KeepsNonPositiveCurrent(parts) ==
    IF parts # <<>> /\ Len(parts) > 31
    THEN LET prevClose == ParseFloat(parts[3])
             current == ParseFloat(parts[4])
             validCurrent == IF ~IsNaN(current) THEN current ELSE prevClose
         IN  Some([name |-> parts[1],
                   currentPrice |-> validCurrent,
                   yesterdayPrice |-> prevClose,
                   priceDate |-> parts[31] \o " " \o parts[32]])
    ELSE Null

\* fetchStockData after the script has loaded (lines 86-111): dataStr is the
\* value of window[varName], given as its comma-separated fields (<<>> when
\* the variable is missing or the empty string); parts[k] of the code is
\* parts[k + 1] here
StockQuote(parts) ==
    IF parts # <<>> /\ Len(parts) > 31
    THEN LET name == parts[1]
             prevClose == ParseFloat(parts[3])
             current == ParseFloat(parts[4])
             date == parts[31]
             time == parts[32]
             validCurrent == IF ~IsNaN(current) /\ current[1] > 0
                             THEN current ELSE prevClose
         IN  Some([name |-> name,
                   currentPrice |-> validCurrent,
                   yesterdayPrice |-> prevClose,
                   priceDate |-> date \o " " \o time])
    ELSE Null

----------------------------------------------------------------------------
(* marketDataService.ts refreshMarketPrices: the merge-back of one quote *)

\* lines 129-135: the object that replaces updatedHoldings[i]
MergeBack(h, data) ==
    [h EXCEPT
        !.name = IF TruthyStr(data.name) THEN data.name ELSE h.name,
        !.currentPrice = IF TruthyNum(data.currentPrice) THEN data.currentPrice[1]
                         ELSE h.currentPrice,
        !.yesterdayPrice = IF TruthyNum(data.yesterdayPrice) THEN data.yesterdayPrice
                           ELSE Num(h.currentPrice),
        !.priceDate = IF TruthyStr(data.priceDate) THEN data.priceDate
                      ELSE h.priceDate]

\* refreshMarketPrices (114-143) as a function of the list and of what the
\* adapter call of each holding resolves to (Null: no data, or the call threw)
RefreshMarketPrices(list, quotes) ==
    [i \in 1..Len(list) |->
        IF quotes[i] # Null THEN MergeBack(list[i], quotes[i][1]) ELSE list[i]]

----------------------------------------------------------------------------
(* refreshMarketPrices as a process.  A call is a task: it awaits the quote  *)
(* of updatedHoldings[i], merges it back and goes on to i + 1.  Everything   *)
(* between two awaits runs without interruption (one JavaScript job and the  *)
(* microtasks it queues), so it is one step here.  The operators below take  *)
(* a world w, a record of the values of the variables, and return the world  *)
(* after the code has run.                                                   *)

Range(f) == {f[k] : k \in DOMAIN f}

\* (writes is history: the saves the step has made or has awaited, in order)
NoReturn ==
    [t |-> 0, kind |-> "", input |-> <<>>, output |-> <<>>, got |-> <<>>,
     writes |-> <<>>]

\* w.user is the user state as the closure that runs sees it
World ==
    [holdings |-> holdings, isRefreshing |-> isRefreshing, localStore |-> localStore,
     remoteStore |-> remoteStore, user |-> user, authFlow |-> authFlow,
     tasks |-> tasks, jsonpgz |-> jsonpgz, scripts |-> scripts, ret |-> NoReturn]

DoneTask(kind) ==
    [kind |-> kind, status |-> "done", input |-> <<>>, list |-> <<>>, i |-> 0,
     got |-> <<>>, user |-> ""]

\* the promise fetchFundData / fetchStockData made for index i of task t is
\* still unresolved
Pending(w, t, i) == w.tasks[t].status = "running" /\ w.tasks[t].i = i

\* storageService.ts saveHoldings: setItem may throw, which is caught and logged.
\* saveOk.local and saveOk.remote say whether the writes of the step succeed
SaveHoldings(store, list, saveOk) == IF saveOk.local THEN list ELSE store

\* storageService.ts saveUserHoldings: setDoc with merge, which may fail
SaveUserHoldings(remote, list, saveOk) == IF saveOk.remote THEN <<list>> ELSE remote

\* saveHoldings(list) followed by "if (user && auth) saveUserHoldings(user.uid,
\* list)", as persistHoldings (80-89), handleRefresh (97-98) and the post-add
\* updater (162-163) do it; a failure of either is logged or left unhandled
Save(w, closureUser, list, saveOk) ==
    [w EXCEPT
        !.localStore = SaveHoldings(@, list, saveOk),
        !.remoteStore = IF closureUser # "" THEN SaveUserHoldings(@, list, saveOk) ELSE @,
        !.ret.writes = @ \o <<[port |-> "local", value |-> list, ok |-> saveOk.local]>>
                         \o (IF closureUser # ""
                             THEN <<[port |-> "remote", value |-> list,
                                     ok |-> saveOk.remote]>>
                             ELSE <<>>)]

\* the list the post-add refresh returned replaces the in-memory list
FinalMix_TakesRefreshedList(currentHoldings, refreshedItems) == refreshedItems

\* App.tsx 149-166: the updater the post-add refresh hands to setHoldings
FinalMix(currentHoldings, refreshedItems) ==
    [k \in 1..Len(currentHoldings) |->
        LET p == currentHoldings[k]
            hits == {j \in 1..Len(refreshedItems) : refreshedItems[j].id = p.id}
        IN  IF hits = {} THEN p
            ELSE LET fresh == refreshedItems[CHOOSE j \in hits : \A m \in hits : j <= m]
                 IN  [p EXCEPT !.currentPrice = fresh.currentPrice,
                               !.yesterdayPrice = fresh.yesterdayPrice,
                               !.priceDate = fresh.priceDate,
                               !.name = fresh.name]]

\* refreshMarketPrices has returned updatedHoldings to its caller: the rest of
\* handleRefresh (App.tsx 96-102) or the .then of handleAddHoldings (148-167)
\* (task.user is the user state of the closure that made the call)
Complete(w, t, saveOk) ==
    LET task == w.tasks[t]
        ret == [t |-> t, kind |-> task.kind, input |-> task.input,
                output |-> task.list, got |-> task.got, writes |-> w.ret.writes]
        mix == FinalMix(w.holdings, task.list)
    IN  IF task.kind = "refresh"
        THEN Save([w EXCEPT !.holdings = task.list,
                            !.isRefreshing = FALSE,
                            !.tasks[t] = DoneTask(task.kind),
                            !.ret = ret],
                  task.user, task.list, saveOk)
        ELSE Save([w EXCEPT !.holdings = mix,
                            !.tasks[t] = DoneTask(task.kind),
                            !.ret = ret],
                  task.user, mix, saveOk)

\* marketDataService.ts 119-126 up to the await: the adapter is called for
\* h = updatedHoldings[i].  fetchFundData (36-62) wraps the current
\* window.jsonpgz in a callback for h.code and appends the script; a callback
\* hands a record on to the one it wrapped only when the fund code differs, so
\* an older callback for the same code can no longer be reached and is dropped
\* from the chain.  fetchStockData (81-85) appends its script.
StartFetch(w, t) ==
    LET task == w.tasks[t]
        h == task.list[task.i]
        script == [t |-> t, i |-> task.i, type |-> h.type, code |-> h.code]
    IN  IF h.type = FUND
        THEN [w EXCEPT !.jsonpgz = <<[code |-> h.code, t |-> t, i |-> task.i]>>
                                     \o SelectSeq(@, LAMBDA e : e.code # h.code),
                       !.scripts = @ \cup {script}]
        ELSE [w EXCEPT !.scripts = @ \cup {script}]

\* the loop of refreshMarketPrices from the point where the awaited adapter
\* call of task t has resolved to data (lines 128-142)
\* a holding whose fetch gave no data is left out of the list returned
Resolve_DropsFailed(w, t, data, src, saveOk) ==
    LET task == w.tasks[t]
        h == task.list[task.i]
        list2 == IF data # Null
                 THEN [task.list EXCEPT ![task.i] = MergeBack(h, data[1])]
                 ELSE SubSeq(task.list, 1, task.i - 1)
                      \o SubSeq(task.list, task.i + 1, Len(task.list))
        next == IF data # Null THEN task.i + 1 ELSE task.i
        w2 == [w EXCEPT !.tasks[t] =
                  [task EXCEPT !.list = list2, !.i = next,
                               !.got = Append(task.got, [data |-> data, src |-> src])]]
    IN  IF next > Len(list2) THEN Complete(w2, t, saveOk) ELSE StartFetch(w2, t)

\* a fetch that gave no data ends the loop
Resolve_StopsAtFailure(w, t, data, src, saveOk) ==
    LET task == w.tasks[t]
        h == task.list[task.i]
        list2 == IF data # Null
                 THEN [task.list EXCEPT ![task.i] = MergeBack(h, data[1])]
                 ELSE task.list
        w2 == [w EXCEPT !.tasks[t] =
                  [task EXCEPT !.list = list2, !.i = task.i + 1,
                               !.got = Append(task.got, [data |-> data, src |-> src])]]
    IN  IF task.i + 1 > Len(list2) \/ data = Null
        THEN Complete(w2, t, saveOk) ELSE StartFetch(w2, t)

\* (got is history: what each adapter call resolved to, and src the code the
\* resolving record or script was for)
Resolve(w, t, data, src, saveOk) ==
    LET task == w.tasks[t]
        h == task.list[task.i]
        list2 == IF data # Null
                 THEN [task.list EXCEPT ![task.i] = MergeBack(h, data[1])]
                 ELSE task.list
        w2 == [w EXCEPT !.tasks[t] =
                  [task EXCEPT !.list = list2, !.i = task.i + 1,
                               !.got = Append(task.got, [data |-> data, src |-> src])]]
    IN  IF task.i + 1 > Len(list2) THEN Complete(w2, t, saveOk) ELSE StartFetch(w2, t)

\* a call refreshMarketPrices(list) by handleRefresh ("refresh") or by
\* handleAddHoldings ("postadd"), up to its first await
StartTask(w, kind, list, saveOk) ==
    LET t == Len(w.tasks) + 1
        task == [kind |-> kind, status |-> "running", input |-> list, list |-> list,
                 i |-> 1, got |-> <<>>, user |-> w.user]
        w2 == [w EXCEPT !.tasks = Append(@, task)]
    IN  IF list = <<>> THEN Complete(w2, t, saveOk) ELSE StartFetch(w2, t)

\* the newest callback of the chain takes every record
Dispatch_IgnoresCode(chain, fundcode) ==
    IF chain = <<>> THEN {} ELSE {chain[1]}

\* the newest callback of the chain whose code is fundcode, as a set
Dispatch(chain, fundcode) ==
    LET hits == {k \in 1..Len(chain) : chain[k].code = fundcode}
    IN  IF hits = {} THEN {}
        ELSE {chain[CHOOSE k \in hits : \A m \in hits : k <= m]}

\* the script of a fund request has loaded or failed (fetchFundData 38-66).
\* resp.kind: "record" - the script calls jsonpgz(resp.data[1]);
\*            "missing" - it calls jsonpgz() or nothing: data.fundcode throws
\*                        inside the script, or no callback runs;
\*            "error"   - onerror: loadScript rejects and the catch resolves null
FundScriptSettles(w, s, resp, saveOk) ==
    LET w1 == [w EXCEPT !.scripts = @ \ {s}]
        target == IF resp.kind = "record"
                  THEN Dispatch(w.jsonpgz, resp.data[1].fundcode)
                  ELSE {}
    IN  CASE resp.kind = "record" ->
                IF \E e \in target : Pending(w, e.t, e.i)
                THEN LET e == CHOOSE e \in target : TRUE
                     IN  Resolve(w1, e.t, Some(FundQuote(resp.data[1])),
                                 resp.data[1].fundcode, saveOk)
                ELSE w1
          [] resp.kind = "error" ->
                IF Pending(w, s.t, s.i) THEN Resolve(w1, s.t, Null, s.code, saveOk)
                ELSE w1
          [] OTHER -> w1

\* the script of a stock request has loaded or failed (fetchStockData 84-111):
\* resp.kind "record" with the fields of window[varName], or "error"
StockScriptSettles(w, s, resp, saveOk) ==
    LET w1 == [w EXCEPT !.scripts = @ \ {s}]
        data == IF resp.kind = "record" THEN StockQuote(resp.data) ELSE Null
    IN  Resolve(w1, s.t, data, s.code, saveOk)

----------------------------------------------------------------------------
(* AddAssetForm.tsx handleManualSubmit: the objects it builds *)

\* line 56: a submission with an empty code, price or quantity returns at once
ManualRejected(form) == form.code = "" \/ form.buyPrice = "" \/ form.quantity = ""

\* lines 72-81 (the price and quantity inputs are type="number": their value
\* is a numeric text or empty)
ManualNew(form, id) ==
    NewHolding(id, form.type, IF form.name # "" THEN form.name ELSE form.code,
               form.code, form.buyDate,
               ParseFloat(form.buyPrice)[1], ParseFloat(form.quantity)[1])

\* lines 60-68
ManualUpdated(form, editingHolding) ==
    [editingHolding EXCEPT
        !.type = form.type,
        !.name = IF form.name # "" THEN form.name ELSE editingHolding.name,
        !.code = form.code,
        !.buyDate = form.buyDate,
        !.buyPrice = RInt(ParseFloat(form.buyPrice)[1]),
        !.quantity = ParseFloat(form.quantity)[1]]

\* App.tsx 205: holdings.find(h => h.id === editingId), as a sequence of 0 or 1
EditingHolding(list, id) ==
    LET hits == {k \in 1..Len(list) : list[k].id = id}
    IN  IF hits = {} THEN <<>>
        ELSE <<list[CHOOSE k \in hits : \A m \in hits : k <= m]>>

----------------------------------------------------------------------------
(* App.tsx: the handlers, as functions from world to world *)

\* persistHoldings (76-90): setHoldings, saveHoldings and, signed in,
\* saveUserHoldings
PersistHoldings(w, newHoldings, saveOk) ==
    Save([w EXCEPT !.holdings = newHoldings], w.user, newHoldings, saveOk)

\* handleAddHoldings (107-168) up to the await inside refreshMarketPrices.
\* saveOk: whether the setItem of persistHoldings succeeds
HandleAddHoldings(w, newHoldings, saveOk) ==
    LET r == MergeEngine(w.holdings, newHoldings)
        itemsToRefresh == SelectSeq(r.list, LAMBDA h : h.id \in Range(r.affectedIds))
    IN  StartTask(PersistHoldings(w, r.list, saveOk), "postadd", itemsToRefresh, saveOk)

\* handleUpdateHolding (170-176)
HandleUpdateHolding(w, updatedHolding, saveOk) ==
    PersistHoldings(w,
        [k \in 1..Len(w.holdings) |->
            IF w.holdings[k].id = updatedHolding.id THEN updatedHolding
            ELSE w.holdings[k]],
        saveOk)

\* handleRefresh (92-104) up to the await inside refreshMarketPrices
HandleRefresh(w, currentHoldings, saveOk) ==
    StartTask([w EXCEPT !.isRefreshing = TRUE], "refresh", currentHoldings, saveOk)

----------------------------------------------------------------------------
(* App.tsx 41-70: the listener of onAuthStateChanged for a signed-in user,   *)
(* from one await to the next                                                *)

\* a failed read is reported like a missing document
GetUserHoldings_NullOnError(remote, readOk) ==
    IF readOk THEN [threw |-> FALSE, cloudData |-> remote]
    ELSE [threw |-> FALSE, cloudData |-> <<>>]

\* storageService.ts getUserHoldings (30-48) once getDoc has settled: the
\* holdings of the document, null (<<>>) when there is no document, and the
\* error thrown on when getDoc failed
GetUserHoldings(remote, readOk) ==
    IF readOk THEN [threw |-> FALSE, cloudData |-> remote]
    ELSE [threw |-> TRUE, cloudData |-> <<>>]

\* setHoldings(data); handleRefresh(data) (lines 51-52, 57-58, 66-67).  The
\* effect has no dependencies, so the handleRefresh it calls is the one of the
\* first render, in which user is null
LoadHoldings(w, data, saveOk) ==
    HandleRefresh([w EXCEPT !.holdings = data, !.user = ""], data, saveOk)

\* the local holdings are shown whatever the cloud document holds
AfterRead_KeepsLocal(w, result, saveOk) ==
    IF result.threw THEN [w EXCEPT !.authFlow = <<>>]
    ELSE IF result.cloudData # <<>>
    THEN LoadHoldings([w EXCEPT !.authFlow = <<>>], w.localStore, saveOk)
    ELSE [w EXCEPT
            !.remoteStore = SaveUserHoldings(@, w.localStore, saveOk),
            !.authFlow = <<[uid |-> @[1].uid, stage |-> "upload",
                            localData |-> w.localStore, ok |-> saveOk.remote]>>]

\* lines 48-62 from the point where getUserHoldings has settled with result.
\* Firestore applies the writes of a client in the order of the calls, so the
\* document takes the upload of line 56 here, where setDoc is called; whether
\* it succeeds (ok) is delivered when the await of line 56 returns
AfterRead(w, result, saveOk) ==
    IF result.threw THEN [w EXCEPT !.authFlow = <<>>]
    ELSE IF result.cloudData # <<>>
    THEN LoadHoldings([w EXCEPT !.authFlow = <<>>], result.cloudData[1], saveOk)
    ELSE [w EXCEPT
            !.remoteStore = SaveUserHoldings(@, w.localStore, saveOk),
            !.authFlow = <<[uid |-> @[1].uid, stage |-> "upload",
                            localData |-> w.localStore, ok |-> saveOk.remote]>>]

\* lines 56-62 from the point where saveUserHoldings(uid, localData) has
\* settled: a failure is thrown to the catch of line 60
AfterUpload(w, saveOk) ==
    LET localData == w.authFlow[1].localData
        ok == w.authFlow[1].ok
        w1 == [w EXCEPT
                  !.authFlow = <<>>,
                  !.ret.writes = Append(@, [port |-> "remote", value |-> localData,
                                            ok |-> ok])]
    IN  IF ok THEN LoadHoldings(w1, localData, saveOk) ELSE w1

----------------------------------------------------------------------------
(* App.tsx summary (207-230): the portfolio aggregate, recomputed from the   *)
(* holdings at every render.  All five values are fractions.                 *)

\* holdings.forEach (212-218) over the accumulators cost, value and dayPL:
\* the day P/L counts a holding only when its yesterdayPrice is truthy
RECURSIVE SummaryLoop(_, _)
SummaryLoop(acc, list) ==
    IF list = <<>> THEN acc
    ELSE LET h == Head(list)
         IN  SummaryLoop(
                [cost |-> RAdd(acc.cost, RMulInt(h.buyPrice, h.quantity)),
                 value |-> RAdd(acc.value, RInt(h.currentPrice * h.quantity)),
                 dayPL |-> IF TruthyNum(h.yesterdayPrice)
                           THEN RAdd(acc.dayPL,
                                     RInt((h.currentPrice - h.yesterdayPrice[1])
                                            * h.quantity))
                           ELSE acc.dayPL],
                Tail(list))

\* lines 220-229
Summary(list) ==
    LET acc == SummaryLoop([cost |-> RInt(0), value |-> RInt(0), dayPL |-> RInt(0)],
                           list)
        pl == RSub(acc.value, acc.cost)
        rate == IF acc.cost[1] > 0 THEN RMulInt(RDiv(pl, acc.cost), 100) ELSE RInt(0)
    IN  [totalCost |-> acc.cost, totalMarketValue |-> acc.value,
         totalProfitLoss |-> pl, totalReturnRate |-> rate,
         totalDayProfitLoss |-> acc.dayPL]

summary == Summary(holdings)

----------------------------------------------------------------------------
(* ProfitSharing.tsx calculation (12-56) *)

thresholdLow == <<3, 100>>      \* 0.03
thresholdHigh == <<5, 100>>     \* 0.05
shareLow == <<1, 5>>            \* 0.20
shareHigh == <<1, 2>>           \* 0.50

profitAt3Percent(totalCost) == RMul(totalCost, thresholdLow)
profitAt5Percent(totalCost) == RMul(totalCost, thresholdHigh)

\* the share is taken of the whole profit
ShareBetween_OfWholeProfit(totalCost, totalProfitLoss) ==
    RMul(totalProfitLoss, shareLow)

\* line 40: the branch for a rate between 3% and 5%
ShareBetween(totalCost, totalProfitLoss) ==
    RMul(RSub(totalProfitLoss, profitAt3Percent(totalCost)), shareLow)

\* the first tier is left out
ShareAbove_WithoutFirstTier(totalCost, totalProfitLoss) ==
    RMul(RSub(totalProfitLoss, profitAt5Percent(totalCost)), shareHigh)

\* lines 44-48: the branch for a rate above 5%
ShareAbove(totalCost, totalProfitLoss) ==
    LET part1 == RMul(RSub(profitAt5Percent(totalCost), profitAt3Percent(totalCost)),
                      shareLow)
        part2 == RMul(RSub(totalProfitLoss, profitAt5Percent(totalCost)), shareHigh)
    IN  RAdd(part1, part2)

Calculation(totalCost, totalProfitLoss) ==
    IF totalCost = RInt(0)
    THEN [sharingAmount |-> RInt(0), guaranteeAmount |-> RInt(0)]
    ELSE IF totalProfitLoss[1] < 0
    THEN [sharingAmount |-> RInt(0), guaranteeAmount |-> RAbs(totalProfitLoss)]
    ELSE LET profitRate == RDiv(totalProfitLoss, totalCost)
         IN  [sharingAmount |->
                 IF RLeq(profitRate, thresholdLow) THEN RInt(0)
                 ELSE IF RLess(thresholdLow, profitRate) /\ RLeq(profitRate, thresholdHigh)
                 THEN ShareBetween(totalCost, totalProfitLoss)
                 ELSE ShareAbove(totalCost, totalProfitLoss),
              guaranteeAmount |-> RInt(0)]

calculation == Calculation(summary.totalCost, summary.totalProfitLoss)

----------------------------------------------------------------------------
(* The steps of the application *)

Op(name, incoming, affectedIds, ret) ==
    [op |-> name, incoming |-> incoming, affectedIds |-> affectedIds,
     t |-> ret.t, kind |-> ret.kind, input |-> ret.input, output |-> ret.output,
     got |-> ret.got, writes |-> ret.writes]

\* the variables take the values of world w
Install(w) ==
    /\ holdings' = w.holdings
    /\ isRefreshing' = w.isRefreshing
    /\ localStore' = w.localStore
    /\ remoteStore' = w.remoteStore
    /\ tasks' = w.tasks
    /\ jsonpgz' = w.jsonpgz
    /\ scripts' = w.scripts

\* App.tsx 30-38 and 63-68: the initial load of a guest session
Mount(saveOk) ==
    /\ ~mounted
    /\ mounted' = TRUE
    /\ LET localData == localStore
           w == HandleRefresh([World EXCEPT !.holdings = localData], localData, saveOk)
       IN  Install(w) /\ last' = Op("mount", <<>>, <<>>, w.ret)
    /\ UNCHANGED <<editingId, nextId, session>>

\* onAuthStateChanged calls the listener (App.tsx 41-70) with currentUser, ""
\* for null: at page load, after a sign-in or after handleLogout (199-203).
\* A signed-in user starts the read of the cloud document, which is awaited.
\* (One listener call awaits Firestore at a time.)
AuthStateChanged(currentUser, saveOk) ==
    /\ ~mounted \/ currentUser # user
    /\ authFlow = <<>>
    /\ Len(tasks) < MaxTasks
    /\ mounted' = TRUE
    /\ user' = currentUser
    /\ IF currentUser # ""
       THEN /\ authFlow' = <<[uid |-> currentUser, stage |-> "read",
                              localData |-> <<>>, ok |-> TRUE]>>
            /\ last' = Op("signIn", <<>>, <<>>, NoReturn)
            /\ UNCHANGED <<holdings, isRefreshing, localStore, remoteStore, tasks,
                           jsonpgz, scripts>>
       ELSE /\ LET w == LoadHoldings(World, localStore, saveOk)
               IN  Install(w) /\ last' = Op("guest", <<>>, <<>>, w.ret)
            /\ UNCHANGED authFlow
    /\ UNCHANGED <<editingId, nextId>>

\* getDoc of the listener call that awaits it settles: readOk says whether it
\* delivered a snapshot or failed
ReadSettles(readOk, saveOk) ==
    /\ authFlow # <<>> /\ authFlow[1].stage = "read"
    /\ readOk /\ remoteStore # <<>> => Len(tasks) < MaxTasks
    /\ LET w == AfterRead(World, GetUserHoldings(remoteStore, readOk), saveOk)
       IN  /\ Install(w)
           /\ authFlow' = w.authFlow
           /\ last' = Op(IF readOk THEN "readDone" ELSE "readFailed", <<>>, <<>>, w.ret)
    /\ UNCHANGED <<editingId, mounted, nextId, user>>

\* setDoc of the listener call that awaits the upload settles
UploadSettles(saveOk) ==
    /\ authFlow # <<>> /\ authFlow[1].stage = "upload"
    /\ Len(tasks) < MaxTasks
    /\ LET w == AfterUpload(World, saveOk)
       IN  /\ Install(w)
           /\ authFlow' = w.authFlow
           /\ last' = Op(IF authFlow[1].ok THEN "uploaded" ELSE "uploadFailed",
                         <<>>, <<>>, w.ret)
    /\ UNCHANGED <<editingId, mounted, nextId, user>>

\* the refresh button (App.tsx 326): handleRefresh(holdings)
RefreshClick(saveOk) ==
    /\ mounted
    /\ Len(tasks) < MaxTasks
    /\ LET w == HandleRefresh(World, holdings, saveOk)
       IN  Install(w) /\ last' = Op("refreshClick", <<>>, <<>>, w.ret)
    /\ UNCHANGED <<editingId, mounted, nextId, session>>

\* handleManualSubmit (AddAssetForm.tsx 54-86) with the handler it calls
ManualSubmit(form, saveOk) ==
    /\ mounted
    /\ LET editingHolding == EditingHolding(holdings, editingId)
       IN  IF ManualRejected(form)
           THEN /\ last' = Op("rejected", <<>>, <<>>, NoReturn)
                /\ UNCHANGED <<holdings, editingId, isRefreshing, localStore,
                               remoteStore, tasks, jsonpgz, scripts, nextId>>
           ELSE IF editingHolding # <<>>
           THEN LET updated == ManualUpdated(form, editingHolding[1])
                    w == HandleUpdateHolding(World, updated, saveOk)
                IN  /\ Install(w)
                    /\ editingId' = 0
                    /\ last' = Op("update", <<updated>>, <<>>, w.ret)
                    /\ UNCHANGED nextId
           ELSE /\ nextId < MaxIds
                /\ Len(tasks) < MaxTasks
                /\ LET newHolding == ManualNew(form, IdOf(nextId + 1))
                       r == MergeEngine(holdings, <<newHolding>>)
                       w == HandleAddHoldings(World, <<newHolding>>, saveOk)
                   IN  /\ Install(w)
                       /\ last' = Op("add", <<newHolding>>, r.affectedIds, w.ret)
                /\ nextId' = nextId + 1
                /\ UNCHANGED editingId
    /\ UNCHANGED <<mounted, session>>

\* handleBatchSubmit (AddAssetForm.tsx 88-126) with handleAddHoldings
BatchSubmit(lines, saveOk) ==
    /\ mounted
    /\ LET newHoldings == BatchRows(lines, nextId)
       IN  IF Len(newHoldings) > 0
           THEN /\ nextId + Len(newHoldings) <= MaxIds
                /\ Len(tasks) < MaxTasks
                /\ LET r == MergeEngine(holdings, newHoldings)
                       w == HandleAddHoldings(World, newHoldings, saveOk)
                   IN  /\ Install(w)
                       /\ last' = Op("add", newHoldings, r.affectedIds, w.ret)
                /\ nextId' = nextId + Len(newHoldings)
           ELSE /\ last' = Op("rejected", <<>>, <<>>, NoReturn)
                /\ UNCHANGED <<holdings, isRefreshing, localStore, remoteStore, tasks,
                               jsonpgz, scripts, nextId>>
    /\ UNCHANGED <<editingId, mounted, session>>

\* handleEdit (189-192)
HandleEdit(id) ==
    /\ mounted
    /\ id \in {holdings[k].id : k \in 1..Len(holdings)}
    /\ editingId # id
    /\ editingId' = id
    /\ last' = Op("edit", <<>>, <<>>, NoReturn)
    /\ UNCHANGED <<holdings, isRefreshing, mounted, localStore, remoteStore, tasks,
                   jsonpgz, scripts, nextId, session>>

\* openAddModal (194-197)
OpenAddModal ==
    /\ mounted
    /\ editingId # 0
    /\ editingId' = 0
    /\ last' = Op("openAdd", <<>>, <<>>, NoReturn)
    /\ UNCHANGED <<holdings, isRefreshing, mounted, localStore, remoteStore, tasks,
                   jsonpgz, scripts, nextId, session>>

\* handleDelete (178-187), the confirm dialog accepted
HandleDelete(id, saveOk) ==
    /\ mounted
    /\ id \in {holdings[k].id : k \in 1..Len(holdings)}
    /\ LET w == PersistHoldings(World, SelectSeq(holdings, LAMBDA h : h.id # id), saveOk)
       IN  Install(w) /\ last' = Op("delete", <<>>, <<id>>, w.ret)
    /\ editingId' = IF editingId = id THEN 0 ELSE editingId
    /\ UNCHANGED <<mounted, nextId, session>>

\* the script of a pending fund request loads or fails
FundScriptEvent(s, resp, saveOk) ==
    /\ s \in scripts
    /\ s.type = FUND
    /\ LET w == FundScriptSettles(World, s, resp, saveOk)
       IN  Install(w) /\ last' = Op("fundScript", <<>>, <<>>, w.ret)
    /\ UNCHANGED <<editingId, mounted, nextId, session>>

\* the script of a pending stock request loads or fails
StockScriptEvent(s, resp, saveOk) ==
    /\ s \in scripts
    /\ s.type = STOCK
    /\ LET w == StockScriptSettles(World, s, resp, saveOk)
       IN  Install(w) /\ last' = Op("stockScript", <<>>, <<>>, w.ret)
    /\ UNCHANGED <<editingId, mounted, nextId, session>>

\* the jsonpgz callback of fetchFundData(code) is called with a record for
\* that code (marketDataService.ts 38-55) and resolves the promise
FundCallback(data) ==
    /\ last' = Op("fundQuote", <<>>, <<>>,
                  [NoReturn EXCEPT !.input = <<data>>, !.output = Some(FundQuote(data))])
    /\ UNCHANGED <<holdings, editingId, isRefreshing, mounted, localStore,
                   remoteStore, tasks, jsonpgz, scripts, nextId, session>>

\* the script of fetchStockData has loaded, window[varName] holding the fields
\* parts (none when the variable is missing or empty), and the function
\* returns (marketDataService.ts 86-111)
StockLoaded(parts) ==
    /\ last' = Op("stockQuote", <<>>, <<>>,
                  [NoReturn EXCEPT !.input = <<parts>>, !.output = StockQuote(parts)])
    /\ UNCHANGED <<holdings, editingId, isRefreshing, mounted, localStore,
                   remoteStore, tasks, jsonpgz, scripts, nextId, session>>

\* a call refreshMarketPrices(holdings) whose adapter calls resolve to quotes
\* returns, and its list becomes the in-memory list (handleRefresh 95-97)
RefreshReturns(quotes) ==
    /\ holdings' = RefreshMarketPrices(holdings, quotes)
    /\ localStore' = holdings'
    /\ last' = Op("refreshed", <<>>, <<>>,
                  [NoReturn EXCEPT
                      !.kind = "refresh", !.input = holdings, !.output = holdings',
                      !.got = [k \in 1..Len(quotes) |->
                                  [data |-> quotes[k], src |-> holdings[k].code]]])
    /\ UNCHANGED <<editingId, isRefreshing, mounted, remoteStore, tasks, jsonpgz,
                   scripts, nextId, session>>

----------------------------------------------------------------------------
(* The application: a guest session, from page load *)

Codes == {"A", "B"}

SeqsUpTo(S, n) == UNION {[1..k -> S] : k \in 1..n}

\* a record the fund source delivers, and a line the stock source delivers
FundRecord(fundcode, name, dwjz, jzrq, gsz, gztime) ==
    [fundcode |-> fundcode, name |-> name, dwjz |-> dwjz, jzrq |-> jzrq,
     gsz |-> gsz, gztime |-> gztime]

StockLine(name, prevClose, current, date, time, n) ==
    [k \in 1..n |-> CASE k = 1 -> name
                      [] k = 3 -> prevClose
                      [] k = 4 -> current
                      [] k = 31 -> date
                      [] k = 32 -> time
                      [] OTHER -> "0"]

StockFields == 32

Form(type, code, buyPrice, quantity) ==
    [type |-> type, name |-> "", code |-> code, buyDate |-> Today,
     buyPrice |-> buyPrice, quantity |-> quantity]

\* what the user submits: complete forms, and one with each required field empty
Forms ==
    {Form(type, code, buyPrice, "1") :
        type \in AssetType, code \in Codes, buyPrice \in {"1", "2"}}
    \cup {Form(FUND, "", "1", "1"), Form(FUND, "A", "", "1"), Form(FUND, "A", "1", "")}

\* lines of a batch text: two well-formed, one with a price that is no number
Lines == {<<"", "A", "1", "1">>, <<"", "B", "2", "1">>, <<"", "A", "x", "1">>}

FundResponses ==
    {[kind |-> "record", data |-> <<FundRecord(c, "N", "2", "d1", "3", "t1")>>] :
        c \in Codes}
    \cup {[kind |-> "missing", data |-> <<>>], [kind |-> "error", data |-> <<>>]}

StockResponses ==
    {[kind |-> "record", data |-> StockLine("S", "2", "3", "d2", "t2", StockFields)],
     [kind |-> "record", data |-> <<>>],
     [kind |-> "error", data |-> <<>>]}

\* holding h as a refresh in an earlier session has left it
Refreshed(h, currentPrice, yesterdayPrice, priceDate) ==
    [h EXCEPT !.currentPrice = currentPrice, !.yesterdayPrice = yesterdayPrice,
              !.priceDate = priceDate]

\* what an earlier session may have left in localStorage
Stored ==
    {<<>>,
     <<[NewHolding(IdOf(1), FUND, "A", "A", Today, 1, 1) EXCEPT
            !.currentPrice = 3, !.yesterdayPrice = Num(2), !.priceDate = "t1"]>>}

InitWith(stored) ==
    /\ holdings = <<>>
    /\ editingId = 0
    /\ isRefreshing = FALSE
    /\ mounted = FALSE
    /\ localStore \in stored
    /\ tasks = <<>>
    /\ jsonpgz = <<>>
    /\ scripts = {}
    /\ nextId = Len(localStore)
    /\ user = ""
    /\ remoteStore = <<>>
    /\ authFlow = <<>>
    /\ last = Op("init", <<>>, <<>>, NoReturn)

\* localStorage.setItem and setDoc succeed
SaveOutcomes == {[local |-> TRUE, remote |-> TRUE]}

Init == InitWith(Stored)

Next ==
    \/ \E saveOk \in SaveOutcomes : Mount(saveOk)
    \/ \E saveOk \in SaveOutcomes : RefreshClick(saveOk)
    \/ \E form \in Forms, saveOk \in SaveOutcomes : ManualSubmit(form, saveOk)
    \/ \E lines \in SeqsUpTo(Lines, MaxBatch), saveOk \in SaveOutcomes :
            BatchSubmit(lines, saveOk)
    \/ \E k \in 1..Len(holdings) : HandleEdit(holdings[k].id)
    \/ OpenAddModal
    \/ \E k \in 1..Len(holdings), saveOk \in SaveOutcomes :
            HandleDelete(holdings[k].id, saveOk)
    \/ \E s \in scripts, resp \in FundResponses, saveOk \in SaveOutcomes :
            FundScriptEvent(s, resp, saveOk)
    \/ \E s \in scripts, resp \in StockResponses, saveOk \in SaveOutcomes :
            StockScriptEvent(s, resp, saveOk)

Spec == Init /\ [][Next]_vars

----------------------------------------------------------------------------
(* The position merge engine on its own: handleAddHoldings 108-140 applied   *)
(* to the entries the two forms build, over a wider range of numbers         *)

MergeForms ==
    {[Form(k[1], k[2], buyPrice, quantity) EXCEPT !.buyDate = "d1"] :
        k \in {<<FUND, "A">>, <<STOCK, "A">>},
        buyPrice \in {"10", "12"}, quantity \in {"0", "50", "100"}}

MergeLines == {<<"N", "A", "10", "50">>, <<"", "A", "12", "-1">>,
               <<"", "B", "12", "50">>, <<"", "", "10", "50">>}

MergeManual(form) ==
    /\ ~ManualRejected(form)
    /\ nextId < MaxMerged
    /\ LET newHolding == ManualNew(form, IdOf(nextId + 1))
           r == MergeEngine(holdings, <<newHolding>>)
       IN  /\ holdings' = r.list
           /\ last' = Op("merge", <<newHolding>>, r.affectedIds, NoReturn)
    /\ nextId' = nextId + 1
    /\ UNCHANGED <<editingId, isRefreshing, mounted, localStore, remoteStore, tasks,
                   jsonpgz, scripts, session>>

MergeBatch(lines) ==
    /\ LET newHoldings == BatchRows(lines, nextId)
           r == MergeEngine(holdings, newHoldings)
       IN  /\ Len(newHoldings) > 0
           /\ nextId + Len(newHoldings) <= MaxMerged
           /\ holdings' = r.list
           /\ last' = Op("merge", newHoldings, r.affectedIds, NoReturn)
           /\ nextId' = nextId + Len(newHoldings)
    /\ UNCHANGED <<editingId, isRefreshing, mounted, localStore, remoteStore, tasks,
                   jsonpgz, scripts, session>>

\* the list the engine starts from: empty, or one fund bought and refreshed
\* in an earlier session
MergeHeld ==
    {<<>>,
     <<Refreshed(NewHolding(IdOf(1), FUND, "Fund A", "A", "d0", 10, 100),
                 11, Num(10), "t0")>>}

InitMerge ==
    /\ holdings \in MergeHeld
    /\ editingId = 0
    /\ isRefreshing = FALSE
    /\ mounted = TRUE
    /\ localStore = holdings
    /\ tasks = <<>>
    /\ jsonpgz = <<>>
    /\ scripts = {}
    /\ nextId = Len(holdings)
    /\ user = ""
    /\ remoteStore = <<>>
    /\ authFlow = <<>>
    /\ last = Op("init", <<>>, <<>>, NoReturn)

NextMerge ==
    \/ \E form \in MergeForms : MergeManual(form)
    \/ \E lines \in SeqsUpTo(MergeLines, MaxBatch) : MergeBatch(lines)

SpecMerge == InitMerge /\ [][NextMerge]_vars

----------------------------------------------------------------------------
(* The price synchronizer on its own: the initial-load refresh of a stored   *)
(* list, over a wider range of answers of the two quote sources              *)

\* a fund never refreshed, a fund and a stock refreshed in an earlier session
SyncStored ==
    {<<NewHolding(IdOf(1), FUND, "A", "A", Today, 1, 2),
       Refreshed(NewHolding(IdOf(2), FUND, "B", "B", Today, 2, 1), 5, Num(4), "d0"),
       Refreshed(NewHolding(IdOf(3), STOCK, "A", "A", Today, 1, 1), 1, Num(1), "d0 t0")
      >>}

SyncFundResponses ==
    {[kind |-> "record", data |-> <<FundRecord(c, "N", dwjz, "d1", gsz, "t1")>>] :
        c \in Codes, dwjz \in {"2", "", "-1"}, gsz \in {"3", ""}}
    \cup {[kind |-> "missing", data |-> <<>>], [kind |-> "error", data |-> <<>>]}

SyncStockResponses ==
    {[kind |-> "record", data |-> StockLine("S", pc[1], pc[2], "d2", "t2", StockFields)] :
        pc \in {<<"2", "3">>, <<"0", "3">>, <<"2", "0">>, <<"", "">>, <<"-1", "0">>}}
    \cup {[kind |-> "record", data |-> StockLine("S", "2", "3", "d2", "t2", StockFields - 1)],
          [kind |-> "record", data |-> <<>>],
          [kind |-> "error", data |-> <<>>]}

InitSync == InitWith(SyncStored)

NextSync ==
    \/ \E saveOk \in SaveOutcomes : Mount(saveOk)
    \/ \E s \in scripts, resp \in SyncFundResponses, saveOk \in SaveOutcomes :
            FundScriptEvent(s, resp, saveOk)
    \/ \E s \in scripts, resp \in SyncStockResponses, saveOk \in SaveOutcomes :
            StockScriptEvent(s, resp, saveOk)

SpecSync == InitSync /\ [][NextSync]_vars

----------------------------------------------------------------------------
(* Overlapping refreshes with well-behaved quote sources: every fund script  *)
(* either delivers a well-formed record for the code it was requested for or *)
(* fails to load, and every stock script delivers a full line or fails       *)

OverlapStored ==
    {<<NewHolding(IdOf(1), FUND, "A", "A", Today, 1, 1),
       NewHolding(IdOf(2), STOCK, "A", "A", Today, 1, 1),
       NewHolding(IdOf(3), FUND, "B", "B", Today, 1, 1)>>}

OwnFundResponses(code) ==
    {[kind |-> "record", data |-> <<FundRecord(code, "N", "2", "d1", "3", "t1")>>],
     [kind |-> "error", data |-> <<>>]}

OverlapStockResponses ==
    {[kind |-> "record", data |-> StockLine("S", "2", "3", "d2", "t2", StockFields)],
     [kind |-> "error", data |-> <<>>]}

InitOverlap == InitWith(OverlapStored)

NextOverlap ==
    \/ \E saveOk \in SaveOutcomes : Mount(saveOk)
    \/ \E saveOk \in SaveOutcomes : RefreshClick(saveOk)
    \/ \E s \in scripts, saveOk \in SaveOutcomes :
            \E resp \in OwnFundResponses(s.code) : FundScriptEvent(s, resp, saveOk)
    \/ \E s \in scripts, resp \in OverlapStockResponses, saveOk \in SaveOutcomes :
            StockScriptEvent(s, resp, saveOk)

SpecOverlap == InitOverlap /\ [][NextOverlap]_vars

----------------------------------------------------------------------------
(* Overlapping refreshes of two funds whose scripts deliver a record for any *)
(* code, no record, or fail to load                                          *)

DispatchStored ==
    {<<NewHolding(IdOf(1), FUND, "A", "A", Today, 1, 1),
       NewHolding(IdOf(2), FUND, "B", "B", Today, 1, 1)>>}

InitDispatch == InitWith(DispatchStored)

NextDispatch ==
    \/ \E saveOk \in SaveOutcomes : Mount(saveOk)
    \/ \E saveOk \in SaveOutcomes : RefreshClick(saveOk)
    \/ \E s \in scripts, resp \in FundResponses, saveOk \in SaveOutcomes :
            FundScriptEvent(s, resp, saveOk)

SpecDispatch == InitDispatch /\ [][NextDispatch]_vars

----------------------------------------------------------------------------
(* A guest session over funds: the refresh of the initial load and the adds, *)
(* edits and deletes of the user, with forms and batch lines that are        *)
(* complete or lack a field, and fund scripts that deliver the record of     *)
(* their code or fail to load                                                *)

LedgerForms ==
    {Form(FUND, code, "2", "1") : code \in Codes}
    \cup {Form(FUND, "", "1", "1"), Form(FUND, "A", "", "1"), Form(FUND, "A", "1", "")}

\* batch texts: a line without a code before a well-formed one; a line whose
\* price is no number and one that is too short; two well-formed lines of one code
LedgerBatches ==
    {<<<<"", "", "1", "1">>, <<"", "B", "1", "1">>>>,
     <<<<"", "A", "x", "1">>, <<"A", "1", "1">>>>,
     <<<<"", "A", "1", "1">>, <<"", "A", "2", "1">>>>}

InitLedger == InitWith(Stored)

NextLedger ==
    \/ \E saveOk \in SaveOutcomes : Mount(saveOk)
    \/ \E form \in LedgerForms, saveOk \in SaveOutcomes : ManualSubmit(form, saveOk)
    \/ \E lines \in LedgerBatches, saveOk \in SaveOutcomes : BatchSubmit(lines, saveOk)
    \/ \E k \in 1..Len(holdings) : HandleEdit(holdings[k].id)
    \/ OpenAddModal
    \/ \E k \in 1..Len(holdings), saveOk \in SaveOutcomes :
            HandleDelete(holdings[k].id, saveOk)
    \/ \E s \in scripts, saveOk \in SaveOutcomes :
            \E resp \in OwnFundResponses(s.code) : FundScriptEvent(s, resp, saveOk)

SpecLedger == InitLedger /\ [][NextLedger]_vars

----------------------------------------------------------------------------
(* refreshMarketPrices as a function of the list and of what the adapters    *)
(* resolve to, applied again and again to its own output.  The quote sources *)
(* answer each holding with a full record, with a record whose previous      *)
(* price is missing, or not at all.                                          *)

TwiceHeld ==
    {<<NewHolding(IdOf(1), FUND, "A", "A", Today, 1, 1),
       Refreshed(NewHolding(IdOf(2), STOCK, "A", "A", Today, 1, 1), 3, Num(2), "d2 t2")>>,
     <<Refreshed(NewHolding(IdOf(1), FUND, "A", "A", Today, 1, 1), 2, Num(2), "d1")>>}

\* what the adapter of a holding of this type may resolve to
QuotesOf(type) ==
    IF type = FUND
    THEN {Null} \cup {Some(FundQuote(FundRecord("A", "N", dwjz, "d1", "3", "t1"))) :
                        dwjz \in {"2", ""}}
    ELSE {Null} \cup {StockQuote(StockLine("S", prevClose, "3", "d2", "t2", StockFields)) :
                        prevClose \in {"2", "0"}}

\* one adapter result for each holding of list
QuoteLists(list) ==
    {q \in [1..Len(list) -> QuotesOf(FUND) \cup QuotesOf(STOCK)] :
        \A k \in 1..Len(list) : q[k] \in QuotesOf(list[k].type)}

InitTwice ==
    /\ holdings \in TwiceHeld
    /\ editingId = 0
    /\ isRefreshing = FALSE
    /\ mounted = TRUE
    /\ localStore = holdings
    /\ tasks = <<>>
    /\ jsonpgz = <<>>
    /\ scripts = {}
    /\ nextId = Len(holdings)
    /\ user = ""
    /\ remoteStore = <<>>
    /\ authFlow = <<>>
    /\ last = Op("init", <<>>, <<>>, NoReturn)

NextTwice == \E quotes \in QuoteLists(holdings) : RefreshReturns(quotes)

SpecTwice == InitTwice /\ [][NextTwice]_vars

----------------------------------------------------------------------------
(* A session with Firebase configured: the user signs in and out, the cloud  *)
(* document exists or not, reads and writes of either store may fail         *)

\* a holding with an id drawn in another session
CloudHolding == NewHolding(IdOf(MaxIds + 1), FUND, "B", "B", Today, 2, 1)

AuthStored == {<<NewHolding(IdOf(1), FUND, "A", "A", Today, 1, 1)>>}

AuthRemote == {<<>>, <<<<>>>>, <<<<CloudHolding>>>>}

AuthForms == {Form(FUND, "A", "2", "1")}

AuthSaveOutcomes == [local : BOOLEAN, remote : BOOLEAN]

Users == {"", "u1"}

InitAuth ==
    /\ holdings = <<>>
    /\ editingId = 0
    /\ isRefreshing = FALSE
    /\ mounted = FALSE
    /\ localStore \in AuthStored
    /\ tasks = <<>>
    /\ jsonpgz = <<>>
    /\ scripts = {}
    /\ nextId = Len(localStore)
    /\ user = ""
    /\ remoteStore \in AuthRemote
    /\ authFlow = <<>>
    /\ last = Op("init", <<>>, <<>>, NoReturn)

NextAuth ==
    \/ \E currentUser \in Users, saveOk \in AuthSaveOutcomes :
            AuthStateChanged(currentUser, saveOk)
    \/ \E readOk \in BOOLEAN, saveOk \in AuthSaveOutcomes : ReadSettles(readOk, saveOk)
    \/ \E saveOk \in AuthSaveOutcomes : UploadSettles(saveOk)
    \/ \E saveOk \in AuthSaveOutcomes : RefreshClick(saveOk)
    \/ \E form \in AuthForms, saveOk \in AuthSaveOutcomes : ManualSubmit(form, saveOk)
    \/ \E k \in 1..Len(holdings) : HandleEdit(holdings[k].id)
    \/ \E k \in 1..Len(holdings), saveOk \in AuthSaveOutcomes :
            HandleDelete(holdings[k].id, saveOk)
    \/ \E s \in scripts, saveOk \in AuthSaveOutcomes :
            \E resp \in OwnFundResponses(s.code) : FundScriptEvent(s, resp, saveOk)

SpecAuth == InitAuth /\ [][NextAuth]_vars

----------------------------------------------------------------------------
(* Signing in and out, with the refreshes the listener starts and the user   *)
(* deleting holdings meanwhile                                               *)

NextSignIn ==
    \/ \E currentUser \in Users, saveOk \in AuthSaveOutcomes :
            AuthStateChanged(currentUser, saveOk)
    \/ \E readOk \in BOOLEAN, saveOk \in AuthSaveOutcomes : ReadSettles(readOk, saveOk)
    \/ \E saveOk \in AuthSaveOutcomes : UploadSettles(saveOk)
    \/ \E k \in 1..Len(holdings), saveOk \in AuthSaveOutcomes :
            HandleDelete(holdings[k].id, saveOk)
    \/ \E s \in scripts, saveOk \in AuthSaveOutcomes :
            \E resp \in OwnFundResponses(s.code) : FundScriptEvent(s, resp, saveOk)

SpecSignIn == InitAuth /\ [][NextSignIn]_vars

----------------------------------------------------------------------------
(* The portfolio aggregate and the profit-sharing schedule over a portfolio  *)
(* of funds: one large position (100000 at cost), one received at no cost,   *)
(* and what a batch import and the refreshes make of them                    *)

PortfolioStored ==
    {<<>>,
     <<NewHolding(IdOf(1), FUND, "A", "A", Today, 200, 500)>>,
     <<NewHolding(IdOf(1), FUND, "B", "B", Today, 0, 10)>>,
     <<NewHolding(IdOf(1), FUND, "A", "A", Today, 200, 500),
       NewHolding(IdOf(2), FUND, "B", "B", Today, 0, 10)>>}

\* the fund source answers for the code requested, or the script fails
PortfolioFundResponses(code) ==
    {[kind |-> "record", data |-> <<FundRecord(code, "N", dwjz, "d1", gsz, "t1")>>] :
        dwjz \in {"200", ""}, gsz \in {"195", "206", "208", "210", "216", ""}}
    \cup {[kind |-> "error", data |-> <<>>]}

PortfolioLines == {<<"", "C", "10", "-1">>}

InitPortfolio == InitWith(PortfolioStored)

NextPortfolio ==
    \/ \E saveOk \in SaveOutcomes : Mount(saveOk)
    \/ \E lines \in SeqsUpTo(PortfolioLines, MaxBatch), saveOk \in SaveOutcomes :
            BatchSubmit(lines, saveOk)
    \/ \E s \in scripts, saveOk \in SaveOutcomes :
            \E resp \in PortfolioFundResponses(s.code) : FundScriptEvent(s, resp, saveOk)

SpecPortfolio == InitPortfolio /\ [][NextPortfolio]_vars

----------------------------------------------------------------------------
(* The two quote adapters on their own, over the records the sources may     *)
(* deliver: prices that are positive, zero, negative, empty or no number,    *)
(* and stock lines of 31, 32 and 33 fields                                   *)

QuoteFundRecords ==
    {FundRecord("A", name, dwjz, "d1", gsz, "t1") :
        name \in {"N", ""}, dwjz \in {"2", "0", "-1", ""},
        gsz \in {"3", "0", "-1", "", "x"}}

QuoteStockLines ==
    {StockLine(name, prevClose, current, "d2", "t2", n) :
        name \in {"S", ""}, prevClose \in {"2", "0", "-1", ""},
        current \in {"3", "0", "-1", ""},
        n \in {StockFields - 1, StockFields, StockFields + 1}}
    \cup {<<>>}

InitQuote == InitWith({<<>>})

NextQuote ==
    \/ \E data \in QuoteFundRecords : FundCallback(data)
    \/ \E parts \in QuoteStockLines : StockLoaded(parts)

SpecQuote == InitQuote /\ [][NextQuote]_vars

----------------------------------------------------------------------------
(* Claims about the position merge engine *)

SameKey(a, b) == a.code = b.code /\ a.type = b.type

\* the fraction r equals n / d (d > 0)
RatIs(r, n, d) == r[1] * d = n * r[2]

\* C1: a call of handleAddHoldings with one incoming entry (p2, q2) that matches
\* an existing holding (p1, q1), all four non-negative, leaves that holding with
\* quantity q1 + q2 and with buyPrice (p1*q1 + p2*q2) / (q1 + q2) when
\* q1 + q2 > 0, and 0 when q1 + q2 = 0.  (p1 = n1/d1 is a fraction, p2 an
\* integer: the right-hand side is (n1*q1 + p2*q2*d1) / (d1*(q1 + q2)).)
C1_WeightedAverage ==
    [][(last'.op = "merge" /\ Len(last'.incoming) = 1) =>
        \A k \in 1..Len(holdings) :
            LET e == holdings[k]
                inc == last'.incoming[1]
                q == e.quantity + inc.quantity
                r == holdings'[k]
            IN  (/\ SameKey(e, inc)
                 /\ RNonNeg(e.buyPrice) /\ e.quantity >= 0
                 /\ RNonNeg(inc.buyPrice) /\ inc.quantity >= 0)
                => /\ r.quantity = q
                   /\ q > 0 => RatIs(r.buyPrice,
                                     e.buyPrice[1] * e.quantity
                                       + inc.buyPrice[1] * inc.quantity * e.buyPrice[2],
                                     e.buyPrice[2] * q)
                   /\ q = 0 => r.buyPrice = RInt(0)
      ]_vars

\* C1 witness: (10, 100) merged with (12, 50) has given quantity 150 at price
\* 1600/150 = 32/3
C1_Witness ==
    /\ last.op = "merge"
    /\ Len(last.incoming) = 1
    /\ last.incoming[1].buyPrice = RInt(12) /\ last.incoming[1].quantity = 50
    /\ last.affectedIds # <<last.incoming[1].id>>
    /\ \E k \in 1..Len(holdings) :
            /\ holdings[k].id = last.affectedIds[1]
            /\ holdings[k].quantity = 150
            /\ holdings[k].buyPrice = <<32, 3>>

\* C3: a call of handleAddHoldings with two incoming entries of the same
\* (code, type) leaves exactly one holding of that key, whose quantity is the
\* sum of the two and of what was held before, and the resulting list is the
\* list that two calls with one entry each, in the same order, produce
C3_BatchSelfMerge ==
    [][(/\ last'.op = "merge"
        /\ Len(last'.incoming) = 2
        /\ SameKey(last'.incoming[1], last'.incoming[2])) =>
        LET a == last'.incoming[1]
            b == last'.incoming[2]
            before == {k \in 1..Len(holdings) : SameKey(holdings[k], a)}
            after == {k \in 1..Len(holdings') : SameKey(holdings'[k], a)}
            held == IF before = {} THEN 0
                    ELSE holdings[CHOOSE k \in before : TRUE].quantity
        IN  /\ Cardinality(after) = 1
            /\ \A k \in after : holdings'[k].quantity = held + a.quantity + b.quantity
            /\ holdings' = MergeEngine(MergeEngine(holdings, <<a>>).list, <<b>>).list
      ]_vars

\* C3 witness: a batch of two rows for fund A has been imported into a list
\* that held no fund A, and one holding of 49 units stands for both
C3_Witness ==
    /\ last.op = "merge"
    /\ Len(last.incoming) = 2
    /\ SameKey(last.incoming[1], last.incoming[2])
    /\ last.incoming[1].buyPrice # last.incoming[2].buyPrice
    /\ last.affectedIds = <<last.incoming[1].id, last.incoming[1].id>>
    /\ Cardinality({k \in 1..Len(holdings) : SameKey(holdings[k], last.incoming[1])}) = 1
    /\ \E k \in 1..Len(holdings) :
            holdings[k].id = last.incoming[1].id /\ holdings[k].quantity = 49

Matches(list, e) == {k \in 1..Len(list) : SameKey(list[k], e)}

\* C12: a call of handleAddHoldings none of whose incoming entries matches a
\* holding of the list leaves every holding of the list as it was and where it
\* was; an incoming entry that matches neither a holding nor another incoming
\* entry is in the new list verbatim, behind the old holdings; and a call with
\* one such entry appends exactly that entry and marks its id
C12_NewKeyAppendsVerbatim ==
    [][last'.op = "merge" =>
        LET inc == last'.incoming
            new(j) == /\ Matches(holdings, inc[j]) = {}
                      /\ \A i \in 1..Len(inc) : i # j => ~SameKey(inc[i], inc[j])
        IN  /\ (\A j \in 1..Len(inc) : Matches(holdings, inc[j]) = {})
                => /\ Len(holdings') >= Len(holdings)
                   /\ SubSeq(holdings', 1, Len(holdings)) = holdings
            /\ \A j \in 1..Len(inc) :
                    new(j) => \E k \in (Len(holdings) + 1)..Len(holdings') :
                                    holdings'[k] = inc[j]
            /\ (Len(inc) = 1 /\ new(1))
                => /\ holdings' = Append(holdings, inc[1])
                   /\ last'.affectedIds = <<inc[1].id>>
      ]_vars

\* C12 witness: an entry for stock A has been added behind the fund A held
\* from the earlier session, which is as it was
C12_Witness ==
    /\ last.op = "merge"
    /\ Len(last.incoming) = 1
    /\ Len(holdings) = 2
    /\ holdings[1] \in {l[1] : l \in MergeHeld \ {<<>>}}
    /\ holdings[2] = last.incoming[1]
    /\ holdings[2].type = STOCK
    /\ last.affectedIds = <<last.incoming[1].id>>

\* C13: a call of handleAddHoldings all of whose incoming entries match a
\* holding of the list creates no record: the list keeps its length, the
\* matched holding changes in nothing but quantity and buyPrice (id, name,
\* code, type, buyDate, currentPrice, yesterdayPrice and priceDate stay), the
\* other holdings do not change, and the ids marked are the ids of the matched
\* holdings, never the fresh id of an incoming entry
C13_MergeChangesOnlyQuantityAndCost ==
    [][(/\ last'.op = "merge"
        /\ \A j \in 1..Len(last'.incoming) : Matches(holdings, last'.incoming[j]) # {}) =>
        LET inc == last'.incoming
        IN  /\ Len(holdings') = Len(holdings)
            /\ \A k \in 1..Len(holdings) :
                    IF \E j \in 1..Len(inc) : SameKey(holdings[k], inc[j])
                    THEN holdings'[k] = [holdings[k] EXCEPT
                                            !.quantity = holdings'[k].quantity,
                                            !.buyPrice = holdings'[k].buyPrice]
                    ELSE holdings'[k] = holdings[k]
            /\ Len(last'.affectedIds) = Len(inc)
            /\ \A j \in 1..Len(inc) :
                    /\ \E k \in Matches(holdings, inc[j]) :
                            last'.affectedIds[j] = holdings[k].id
                    /\ last'.affectedIds[j] # inc[j].id
                    /\ \A k \in 1..Len(holdings') : holdings'[k].id # inc[j].id
      ]_vars

\* C13 witness: the fund A held from the earlier session (100 units, current
\* price 11, yesterday 10) has taken in a batch row named N of 50 units bought
\* today: 150 units, the rest as it was, and its own id marked
C13_Witness ==
    /\ last.op = "merge"
    /\ Len(last.incoming) = 1
    /\ last.incoming[1].name = "N" /\ last.incoming[1].buyDate = Today
    /\ Len(holdings) = 1
    /\ holdings[1].quantity = 150
    /\ holdings[1].name = "Fund A" /\ holdings[1].buyDate = "d0"
    /\ holdings[1].currentPrice = 11 /\ holdings[1].yesterdayPrice = Num(10)
    /\ holdings[1].priceDate = "t0"
    /\ last.affectedIds = <<holdings[1].id>>
    /\ holdings[1].id # last.incoming[1].id

\* C14 as claimed: every holding of the set has a non-negative quantity and a
\* non-negative buyPrice
C14_NonNegative ==
    \A k \in 1..Len(holdings) :
        holdings[k].quantity >= 0 /\ RNonNeg(holdings[k].buyPrice)

----------------------------------------------------------------------------
(* Claims about the price synchronizer.  last.t # 0 says that the step just  *)
(* taken ended with a call of refreshMarketPrices returning: last.input is   *)
(* the list it was called with, last.output the list it returned, and        *)
(* last.got[k] what the adapter call for the k-th holding resolved to.       *)

Ids(list) == [k \in 1..Len(list) |-> list[k].id]

\* C4: a call of refreshMarketPrices returns exactly as many holdings as it
\* was given, with the same ids in the same order, whatever the fetches did
C4_SameLengthAndOrder ==
    last.t # 0 => Ids(last.output) = Ids(last.input)

\* C4 witness: a refresh of three holdings has returned with one fetch that
\* gave a quote, one that gave no data and one whose script failed to load
C4_Witness ==
    /\ last.t # 0
    /\ Len(last.input) = 3
    /\ last.op = "stockScript"
    /\ \E k \in 1..3 : last.got[k].data # Null
    /\ \E k \in 1..3 : last.got[k].data = Null /\ last.input[k].type = FUND
    /\ last.got[3].data = Null

\* C5: when a call of refreshMarketPrices returns, every holding has been
\* visited; one whose fetch gave no data is returned with every field as it
\* was given, and one whose fetch gave a quote is returned merged with that
\* quote, which is a quote for its own code
C5_FailureSkipsOnlyThatHolding ==
    last.t # 0 =>
        /\ Len(last.got) = Len(last.input)
        /\ Len(last.output) = Len(last.input)
        /\ \A k \in 1..Len(last.input) :
            IF last.got[k].data = Null
            THEN last.output[k] = last.input[k]
            ELSE /\ last.got[k].src = last.input[k].code
                 /\ last.output[k] = MergeBack(last.input[k], last.got[k].data[1])

\* C5 witness: of three holdings the second got no data (its script failed)
\* and is unchanged, while the first and the third were updated
C5_Witness ==
    /\ last.t # 0
    /\ Len(last.input) = 3
    /\ last.got[2].data = Null
    /\ last.output[2] = last.input[2]
    /\ last.got[1].data # Null /\ last.output[1].currentPrice = 3
    /\ last.got[3].data # Null /\ last.output[3].currentPrice = 3
    /\ last.output[1] # last.input[1]
    /\ last.output[3] # last.input[3]

\* C10 as claimed: a holding whose quote came without a usable yesterdayPrice
\* (0 or NaN) is returned with yesterdayPrice equal to its currentPrice as
\* returned, so that its day P/L is 0
C10_YesterdayFallsBackToNewPrice ==
    last.t # 0 =>
        \A k \in 1..Len(last.input) :
            (last.got[k].data # Null /\ ~TruthyNum(last.got[k].data[1].yesterdayPrice))
            => /\ last.output[k].yesterdayPrice = Num(last.output[k].currentPrice)
               /\ (last.output[k].currentPrice - last.output[k].yesterdayPrice[1])
                    * last.output[k].quantity = 0

\* the number a text stands for, for a text that parseFloat can read
Parses(text) == text \in DOMAIN NumericText
NumberOf(text) == Num(NumericText[text])

\* C19: for a fund record delivered for the requested code the quote has
\* currentPrice = gsz when gsz is a positive number, otherwise dwjz, or 0 when
\* dwjz is no number either; yesterdayPrice = dwjz, or 0 when it is no number;
\* priceDate = gztime exactly when gsz was used, otherwise jzrq
C19_FundQuotePolicy ==
    last.op = "fundQuote" =>
        LET data == last.input[1]
            quote == last.output[1]
            estimateUsed == Parses(data.gsz) /\ NumericText[data.gsz] > 0
            nav == IF Parses(data.dwjz) THEN NumberOf(data.dwjz) ELSE Num(0)
        IN  /\ quote.currentPrice = IF estimateUsed THEN NumberOf(data.gsz) ELSE nav
            /\ quote.yesterdayPrice = nav
            /\ quote.priceDate = IF estimateUsed THEN data.gztime ELSE data.jzrq
            /\ (quote.priceDate = data.gztime) <=> estimateUsed

\* C19 witness: a record with estimate "0" and NAV "2" has given a quote of
\* 2 dated with the NAV date
C19_Witness ==
    /\ last.op = "fundQuote"
    /\ last.input[1].gsz = "0" /\ last.input[1].dwjz = "2"
    /\ last.output[1].currentPrice = Num(2)
    /\ last.output[1].yesterdayPrice = Num(2)
    /\ last.output[1].priceDate = last.input[1].jzrq

\* C20: for a stock record of more than 31 fields the quote has name =
\* field 0, currentPrice = field 3 when that is positive and otherwise the
\* previous close (field 2), yesterdayPrice = field 2 and priceDate = field
\* 30, a space, field 31; for a missing record or one of 31 fields or fewer
\* the adapter returns no data.  (Field k of the code is parts[k + 1].)
C20_StockQuotePolicy ==
    last.op = "stockQuote" =>
        LET parts == last.input[1]
        IN  IF Len(parts) > 31
            THEN LET prevClose == IF Parses(parts[3]) THEN NumberOf(parts[3]) ELSE NaN
                     positive == Parses(parts[4]) /\ NumericText[parts[4]] > 0
                 IN  /\ last.output # Null
                     /\ last.output[1].name = parts[1]
                     /\ last.output[1].currentPrice =
                            IF positive THEN NumberOf(parts[4]) ELSE prevClose
                     /\ last.output[1].yesterdayPrice = prevClose
                     /\ last.output[1].priceDate = parts[31] \o " " \o parts[32]
            ELSE last.output = Null

\* C20 witness: a line of 32 fields with current price "0" and previous close
\* "2" has given a quote of 2 with yesterdayPrice 2, dated "d2 t2"
C20_Witness ==
    /\ last.op = "stockQuote"
    /\ Len(last.input[1]) = StockFields
    /\ last.input[1][4] = "0" /\ last.input[1][3] = "2"
    /\ last.output # Null
    /\ last.output[1].currentPrice = Num(2)
    /\ last.output[1].yesterdayPrice = Num(2)
    /\ last.output[1].priceDate = "d2 t2"

\* C11 as claimed: the merge-back replaces a holding's currentPrice only by a
\* strictly positive currentPrice of the quote; for a quote whose currentPrice
\* is zero, negative or NaN the holding keeps the currentPrice it had
C11_OnlyPositivePriceReplaces ==
    last.t # 0 =>
        \A k \in 1..Len(last.input) :
            last.got[k].data # Null =>
                LET quoted == last.got[k].data[1].currentPrice
                IN  IF quoted # NaN /\ quoted[1] > 0
                    THEN last.output[k].currentPrice = quoted[1]
                    ELSE last.output[k].currentPrice = last.input[k].currentPrice

----------------------------------------------------------------------------
(* Claims about the holding set and the refreshes of the running application *)

\* C2 as claimed: no two holdings of the in-memory set share (code, type)
C2_UniqueKeys ==
    \A i, j \in 1..Len(holdings) : i # j => ~SameKey(holdings[i], holdings[j])

FundRequestsInFlight == {s \in scripts : s.type = FUND}

\* C6 as claimed: at most one fund-quote request is in flight at any moment
C6_OneFundRequestInFlight == Cardinality(FundRequestsInFlight) <= 1

\* holding b is holding a with at most its price fields and its name changed
OnlyPricesChanged(a, b) ==
    b = [a EXCEPT !.name = b.name, !.currentPrice = b.currentPrice,
                  !.yesterdayPrice = b.yesterdayPrice, !.priceDate = b.priceDate]

\* C7 as claimed: the step in which a refresh completes (a script settles and
\* refreshMarketPrices returns to handleRefresh or to the post-add .then)
\* neither adds nor removes a holding of the in-memory set and changes nothing
\* of a holding but name, currentPrice, yesterdayPrice and priceDate
C7_RefreshChangesOnlyPrices ==
    [][(last'.t # 0 /\ last'.op \in {"fundScript", "stockScript"}) =>
        /\ Len(holdings') = Len(holdings)
        /\ \A k \in 1..Len(holdings) : OnlyPricesChanged(holdings[k], holdings'[k])
      ]_vars

AllReturned == \A t \in 1..Len(tasks) : tasks[t].status = "done"

\* C8 as claimed: a quote fetch resolves (to a quote or to no data) when its
\* script has loaded or failed, whatever the script delivered: a call of
\* refreshMarketPrices is left awaiting the fetch of its i-th holding only
\* while the script of that fetch is outstanding
C8_EveryFetchResolves ==
    \A t \in 1..Len(tasks) :
        tasks[t].status = "running" =>
            \E s \in scripts : s.t = t /\ s.i = tasks[t].i

\* C9 as claimed: overlapping refreshes do not stall one another, so when the
\* page is loaded and no script is outstanding, every refresh has returned
C9_OverlappingRefreshesReturn == (mounted /\ scripts = {}) => AllReturned

----------------------------------------------------------------------------
(* Claims about the profit-sharing schedule and the portfolio aggregate.     *)
(* summary and calculation are what App and ProfitSharing render from the    *)
(* holdings of the state.                                                    *)

Percent(k) == <<k, 100>>

\* C15: for the totalCost and totalProfitLoss of the rendered summary the
\* calculation gives (0, 0) when totalCost = 0; sharing 0 and guarantee
\* |totalProfitLoss| when totalProfitLoss < 0; otherwise guarantee 0 and
\* sharing 0 for a rate up to 3%, (PL - 3% cost) * 20% for a rate above 3% and
\* up to 5%, and (2% cost) * 20% + (PL - 5% cost) * 50% for a rate above 5%;
\* with cost 100000: PL 4000 gives 200, PL 8000 gives 1900, PL -2500 gives
\* guarantee 2500
C15_ProfitSharingSchedule ==
    LET cost == summary.totalCost
        pl == summary.totalProfitLoss
        sharing == calculation.sharingAmount
        guarantee == calculation.guaranteeAmount
        rate == RDiv(pl, cost)
    IN  /\ cost = RInt(0) => sharing = RInt(0) /\ guarantee = RInt(0)
        /\ (cost # RInt(0) /\ RLess(pl, RInt(0)))
            => sharing = RInt(0) /\ guarantee = RNeg(pl)
        /\ (cost # RInt(0) /\ ~RLess(pl, RInt(0)))
            => /\ guarantee = RInt(0)
               /\ RLeq(rate, Percent(3)) => sharing = RInt(0)
               /\ (RLess(Percent(3), rate) /\ RLeq(rate, Percent(5)))
                    => sharing = RMul(RSub(pl, RMul(Percent(3), cost)), Percent(20))
               /\ RLess(Percent(5), rate)
                    => sharing = RAdd(RMul(RMul(Percent(2), cost), Percent(20)),
                                      RMul(RSub(pl, RMul(Percent(5), cost)), Percent(50)))
        /\ cost = RInt(100000) =>
               /\ pl = RInt(4000) => sharing = RInt(200) /\ guarantee = RInt(0)
               /\ pl = RInt(8000) => sharing = RInt(1900) /\ guarantee = RInt(0)
               /\ pl = RInt(-2500) => sharing = RInt(0) /\ guarantee = RInt(2500)

\* C15 witness: a portfolio of cost 100000 stands at a profit of 8000 after a
\* refresh, and the sharing amount rendered is 1900
C15_Witness ==
    /\ last.t # 0
    /\ summary.totalCost = RInt(100000)
    /\ summary.totalProfitLoss = RInt(8000)
    /\ calculation.sharingAmount = RInt(1900)

\* profits from -1% to 7% of cost in steps of half a percent
ProfitPoints(cost) == {RMul(cost, <<k, 200>>) : k \in -2..14}

\* C16: for the (positive) totalCost of the rendered summary, sharingAmount
\* does not decrease when totalProfitLoss grows; at a rate of exactly 3% the
\* branch for 3%-5% gives the 0 of the branch below, at exactly 5% the branch
\* above 5% gives what the branch for 3%-5% gives; and sharingAmount is 0 for
\* every rate up to 3%
C16_SharingMonotoneAndContinuous ==
    LET cost == summary.totalCost
        points == ProfitPoints(cost) \cup {summary.totalProfitLoss}
        p3 == RMul(Percent(3), cost)
        p5 == RMul(Percent(5), cost)
    IN  RLess(RInt(0), cost) =>
            /\ \A x, y \in points :
                    RLeq(x, y) => RLeq(Calculation(cost, x).sharingAmount,
                                       Calculation(cost, y).sharingAmount)
            /\ ShareBetween(cost, p3) = RInt(0)
            /\ Calculation(cost, p3).sharingAmount = RInt(0)
            /\ ShareAbove(cost, p5) = ShareBetween(cost, p5)
            /\ Calculation(cost, p5).sharingAmount = ShareAbove(cost, p5)
            /\ \A x \in points :
                    RLeq(x, p3) => Calculation(cost, x).sharingAmount = RInt(0)

\* C16 witness: a portfolio of cost 100000 stands at a profit of exactly 5%,
\* where the sharing amount is 400
C16_Witness ==
    /\ last.t # 0
    /\ summary.totalCost = RInt(100000)
    /\ summary.totalProfitLoss = RInt(5000)
    /\ calculation.sharingAmount = RInt(400)

RECURSIVE SumOf(_)
SumOf(terms) == IF terms = <<>> THEN RInt(0) ELSE RAdd(Head(terms), SumOf(Tail(terms)))

CostOf(h) == RMulInt(h.buyPrice, h.quantity)
ValueOf(h) == RInt(h.currentPrice * h.quantity)

\* C17 as claimed: totalCost is the sum of buyPrice * quantity,
\* totalMarketValue the sum of currentPrice * quantity, totalProfitLoss their
\* difference, totalReturnRate is totalProfitLoss / totalCost * 100 when
\* totalCost is not zero and 0 when it is; all five values are 0 for the
\* empty set
C17_SummaryFormulas ==
    LET cost == SumOf([k \in 1..Len(holdings) |-> CostOf(holdings[k])])
        value == SumOf([k \in 1..Len(holdings) |-> ValueOf(holdings[k])])
    IN  /\ summary.totalCost = cost
        /\ summary.totalMarketValue = value
        /\ summary.totalProfitLoss = RSub(value, cost)
        /\ summary.totalReturnRate =
                IF cost # RInt(0) THEN RMulInt(RDiv(RSub(value, cost), cost), 100)
                ELSE RInt(0)
        /\ holdings = <<>> =>
                summary = [totalCost |-> RInt(0), totalMarketValue |-> RInt(0),
                           totalProfitLoss |-> RInt(0), totalReturnRate |-> RInt(0),
                           totalDayProfitLoss |-> RInt(0)]

DayTermOf(h) ==
    IF h.yesterdayPrice = NaN THEN RInt(0)
    ELSE RInt((h.currentPrice - h.yesterdayPrice[1]) * h.quantity)

\* C18 as claimed: totalDayProfitLoss is the sum, over the holdings that have
\* a yesterdayPrice, of (currentPrice - yesterdayPrice) * quantity; a holding
\* without one contributes 0
C18_DayProfitLoss ==
    summary.totalDayProfitLoss =
        SumOf([k \in 1..Len(holdings) |-> DayTermOf(holdings[k])])

\* a handleRefresh invocation that has not reached its finally block
RefreshInFlight(t) == tasks[t].kind = "refresh" /\ tasks[t].status = "running"

\* C30: isRefreshing is true whenever at least one handleRefresh invocation is
\* still in flight, and falls to false only when the last one has finished
C30_FlagCoversRefreshesInFlight ==
    (\E t \in DOMAIN tasks : RefreshInFlight(t)) => isRefreshing

\* the adapter results got, for the list input, all are for the codes of input
OwnCode(input, got) ==
    \A k \in DOMAIN got : got[k].data # Null => got[k].src = input[k].code

\* C29: the price fields a refresh writes to a holding come from a quote record
\* for that holding's own code, also while fund requests of several refreshes
\* wait on the shared jsonpgz callback
C29_QuoteOfOwnCode ==
    /\ \A t \in DOMAIN tasks : OwnCode(tasks[t].input, tasks[t].got)
    /\ OwnCode(last.input, last.got)
    /\ last.t # 0 =>
          \A k \in DOMAIN last.output :
              last.output[k] = IF last.got[k].data = Null THEN last.input[k]
                               ELSE MergeBack(last.input[k], last.got[k].data[1])

C29_Witness ==
    /\ last.op = "fundScript" /\ last.t # 0
    /\ \E k \in DOMAIN last.got :
          last.input[k].type = FUND /\ last.got[k].data # Null
    /\ jsonpgz # <<>>
    /\ \E t \in DOMAIN tasks : tasks[t].status = "running" /\ tasks[t].got = <<>>

\* the ids of list are pairwise distinct
Distinct(list) == \A i, j \in 1..Len(list) : i # j => list[i].id # list[j].id

\* ids, a sequence, begins with the sequence prefix
IsPrefix(prefix, ids) ==
    Len(prefix) <= Len(ids) /\ SubSeq(ids, 1, Len(prefix)) = prefix

\* C28: the ids of the in-memory holdings are pairwise distinct, and no
\* operation changes the id of a holding: an add or merge keeps every holding's
\* id in its place and gives ids that no holding has to the new ones, an edit
\* keeps all ids, a delete removes exactly the deleted id, and a refresh or a
\* post-add merge-back returns each holding with the id it was given
C28_IdsUniqueAndStable ==
    [][/\ Distinct(holdings')
       /\ last'.op = "add" =>
            /\ IsPrefix(Ids(holdings), Ids(holdings'))
            /\ \A k \in Len(holdings) + 1..Len(holdings') :
                  /\ holdings'[k].id \in Range(last'.affectedIds)
                  /\ \A t \in DOMAIN tasks : holdings'[k].id \notin Range(Ids(tasks[t].input))
       /\ last'.op = "update" => Ids(holdings') = Ids(holdings)
       /\ last'.op = "delete" =>
            Ids(holdings') = Ids(SelectSeq(holdings, LAMBDA h : h.id # last'.affectedIds[1]))
       /\ last'.t # 0 =>
            /\ Ids(last'.output) = Ids(last'.input)
            /\ last'.kind = "refresh" => Ids(holdings') = Ids(last'.input)
            /\ last'.kind = "postadd" => Ids(holdings') = Ids(holdings)
      ]_vars

\* C28 witness: an entry has been merged into a holding that a refresh had
\* priced, and the post-add merge-back of that holding has returned
C28_Witness ==
    /\ last.t # 0 /\ last.kind = "postadd"
    /\ \E k \in 1..Len(holdings) :
          /\ holdings[k].id \in Range(Ids(last.input))
          /\ holdings[k].quantity = 2
          /\ holdings[k].id = IdOf(1)

\* C25: handleAddHoldings starts the price synchronizer over exactly the
\* holdings of the new set whose ids were touched, and the step in which that
\* call returns changes, of the in-memory set, only name, currentPrice,
\* yesterdayPrice and priceDate of holdings it was given: every other holding
\* keeps all of its fields and its place
C25_PostAddTouchesOnlyAffected ==
    [][/\ last'.op = "add" =>
            /\ Len(tasks') = Len(tasks) + 1
            /\ tasks'[Len(tasks')].kind = "postadd"
            /\ tasks'[Len(tasks')].input =
                  SelectSeq(holdings', LAMBDA h : h.id \in Range(last'.affectedIds))
       /\ (last'.t # 0 /\ last'.kind = "postadd") =>
            /\ Len(holdings') = Len(holdings)
            /\ \A k \in 1..Len(holdings) :
                  IF holdings[k].id \in Range(Ids(last'.input))
                  THEN OnlyPricesChanged(holdings[k], holdings'[k])
                  ELSE holdings'[k] = holdings[k]
      ]_vars

\* C25 witness: the post-add refresh of one new holding has returned with a
\* quote, which the holding now shows, while the set holds another holding
C25_Witness ==
    /\ last.t # 0 /\ last.kind = "postadd"
    /\ Len(last.input) = 1 /\ last.got[1].data # Null
    /\ \E k \in 1..Len(holdings) : holdings[k].id \notin Range(Ids(last.input))
    /\ \E k \in 1..Len(holdings) :
          /\ holdings[k].id \in Range(Ids(last.input))
          /\ holdings[k].priceDate # Undefined

\* C26: a step that ends in a rejected submission changes neither the holding
\* set nor local storage nor remote storage and starts no price fetch; every
\* entry that reaches the merge engine or replaces a holding has a code; and
\* no holding of the in-memory set has an empty code
C26_RejectedSubmissionsChangeNothing ==
    [][/\ last'.op = "rejected" =>
            UNCHANGED <<holdings, localStore, remoteStore, tasks, scripts, jsonpgz,
                        isRefreshing>>
       /\ last'.op \in {"add", "update"} =>
            /\ last'.incoming # <<>>
            /\ \A j \in DOMAIN last'.incoming : last'.incoming[j].code # ""
       /\ \A k \in DOMAIN holdings' : holdings'[k].code # ""
      ]_vars

\* C26 witness: a submission has just been rejected, and the set holds the
\* holding of a batch text whose other line, without a code, was skipped
C26_Witness ==
    /\ last.op = "rejected"
    /\ \E k \in DOMAIN holdings :
          holdings[k].code = "B" /\ holdings[k].buyPrice = RInt(1)

\* C27 as claimed: refreshMarketPrices applied to its own output, with what the
\* quote sources answer held fixed, returns the list it was given
C27_RefreshIdempotent ==
    [][(last.op = "refreshed" /\ last'.op = "refreshed" /\ last'.got = last.got)
          => holdings' = holdings]_vars

----------------------------------------------------------------------------
(* Claims about persistence and the session *)

\* the step has attempted to write list to the store port
Wrote(writes, port, list) ==
    \E i \in DOMAIN writes : writes[i].port = port /\ writes[i].value = list

\* the step completes a mutation of the holding set
Mutation(l) == l.op \in {"add", "update", "delete"} \/ l.t # 0

\* C21 as claimed: every step that completes a mutation of the holding set
\* (add or merge, edit, delete, a refresh or a post-add merge-back that returns)
\* writes the new in-memory set to local storage, and also to remote storage
\* when a user is signed in
C21_EveryMutationIsWritten ==
    [][Mutation(last') =>
        /\ Wrote(last'.writes, "local", holdings')
        /\ user' # "" => Wrote(last'.writes, "remote", holdings')
      ]_vars

\* C22: when the read of the cloud document at sign-in delivers a document, its
\* holdings become the in-memory set, a refresh of them is started, and the
\* document is left as it is; when there is no document, the local set is
\* uploaded (the document holds it if the upload succeeds), and once the
\* upload has succeeded that set is the in-memory set
C22_SignInLoadsCloudElseUploadsLocal ==
    [][/\ (last'.op = "readDone" /\ remoteStore # <<>>) =>
            /\ IF remoteStore[1] = <<>> THEN holdings' = <<>>
               ELSE /\ holdings' = remoteStore[1]
                    /\ tasks'[Len(tasks')].input = remoteStore[1]
            /\ remoteStore' = remoteStore
            /\ ~\E i \in DOMAIN last'.writes : last'.writes[i].port = "remote"
            /\ authFlow' = <<>>
       /\ (last'.op = "readDone" /\ remoteStore = <<>>) =>
            /\ authFlow' # <<>>
            /\ authFlow'[1].stage = "upload"
            /\ authFlow'[1].localData = localStore
            /\ authFlow'[1].ok => remoteStore' = <<localStore>>
            /\ UNCHANGED <<holdings, localStore>>
       /\ last'.op = "uploaded" =>
            /\ authFlow[1].ok
            /\ Wrote(last'.writes, "remote", authFlow[1].localData)
            /\ holdings' = authFlow[1].localData
      ]_vars

\* C22 witness: the upload of a sign-in without a cloud document has
\* succeeded: the document and the in-memory set are the local holdings
C22_Witness ==
    /\ last.op = "uploaded"
    /\ user # ""
    /\ holdings # <<>>
    /\ remoteStore = <<holdings>>

\* C23: when the read of the cloud document at sign-in fails, the listener
\* ends there: nothing is uploaded, the document, the in-memory set and local
\* storage stay as they are and no refresh is started; an upload is started,
\* and the listener writes the document, only when the read delivered that
\* there is no document
C23_ReadErrorIsNotNoCloudData ==
    [][/\ last'.op = "readFailed" =>
            /\ authFlow' = <<>>
            /\ last'.writes = <<>>
            /\ UNCHANGED <<holdings, localStore, remoteStore, tasks, scripts>>
       /\ (authFlow' # authFlow /\ authFlow' # <<>> /\ authFlow'[1].stage = "upload") =>
            remoteStore = <<>> /\ last'.op = "readDone"
       /\ (remoteStore' # remoteStore
             /\ last'.op \in {"guest", "signIn", "readDone", "readFailed", "uploaded",
                              "uploadFailed"}) =>
            remoteStore = <<>> /\ last'.op = "readDone"
      ]_vars

\* C23 witness: the read of a document that exists has failed, and the
\* document is still there
C23_Witness ==
    /\ last.op = "readFailed"
    /\ user # ""
    /\ remoteStore = <<<<CloudHolding>>>>
    /\ holdings # remoteStore[1]

\* C24 as claimed: a step in which a save fails still installs the set that
\* was to be saved as the in-memory holding set
C24_FailedSaveStillInstalls ==
    [][\A i \in DOMAIN last'.writes :
          ~last'.writes[i].ok => holdings' = last'.writes[i].value]_vars

====
